---- MODULE Spec2Model ----
(***************************************************************************)
(* Model of src/src/transform.py: clean_dataframe and the module-level     *)
(* driver script that calls it on messy_df and prints the summary.         *)
(*                                                                         *)
(* A DataFrame is a record of columns (pandas Series) plus its index.  A   *)
(* Series is [values, dtype].  A text cell is a sequence of one-character  *)
(* strings; a missing cell (None / NaN) is the value NaN.  DataFrames live *)
(* in a heap of objects addressed by references, so that copying and       *)
(* aliasing are distinguishable.                                           *)
(***************************************************************************)
EXTENDS Integers, Sequences, FiniteSets

VARIABLES heap, df, cleaned_df, pc, report

vars == <<heap, df, cleaned_df, pc, report>>

\* Largest number of rows of the input table.
MaxRows == 3

\* ------------------------------------------------------------------ cells

\* A missing value (None or numpy.nan); never equal to a text cell.
NaN == <<"NaN">>

Whitespace == {" "}

IsNa(v) == v = NaN

\* str.lower() on one character.
LowerChar(c) ==
    CASE c = "A" -> "a"
      [] c = "B" -> "b"
      [] OTHER -> c

\* str.lower(): every character lowercased, length kept.
Lower(s) == [i \in 1..Len(s) |-> LowerChar(s[i])]

RECURSIVE LStrip(_)
LStrip(s) ==
    IF s = <<>> \/ Head(s) \notin Whitespace THEN s ELSE LStrip(Tail(s))

RECURSIVE RStrip(_)
RStrip(s) ==
    IF s = <<>> \/ s[Len(s)] \notin Whitespace
    THEN s
    ELSE RStrip(SubSeq(s, 1, Len(s) - 1))

\* A plausible slip: at most one whitespace character removed on each side.
StripOne(s) ==
    LET l == IF s # <<>> /\ Head(s) \in Whitespace THEN Tail(s) ELSE s
    IN  IF l # <<>> /\ l[Len(l)] \in Whitespace
        THEN SubSeq(l, 1, Len(l) - 1)
        ELSE l

\* str.strip(): leading and trailing whitespace removed, interior kept.
Strip(s) == RStrip(LStrip(s))

\* ----------------------------------------------------------------- Series

\* Series.str: the accessor exists only for a column holding text (dtype
\* object); on a float64 column (every cell NaN) pandas raises
\* AttributeError "Can only use .str accessor with string values".
StrAccessorOk(ser) == ser.dtype = "object"

\* Series.str.strip(): missing cells stay missing; the result is an object column.
StrStrip(ser) ==
    [values |-> [i \in 1..Len(ser.values) |->
                    IF IsNa(ser.values[i]) THEN NaN ELSE Strip(ser.values[i])],
     dtype  |-> "object"]

\* Series.str.lower(): missing cells stay missing.
StrLower(ser) ==
    [values |-> [i \in 1..Len(ser.values) |->
                    IF IsNa(ser.values[i]) THEN NaN ELSE Lower(ser.values[i])],
     dtype  |-> "object"]

\* The expression  col.str.strip().str.lower()  of lines 19, 22 and 76.
StripLower(ser) == StrLower(StrStrip(ser))

\* Series.notna(): the boolean mask of the cells that are present.
NotNa(ser) == [i \in 1..Len(ser.values) |-> ~IsNa(ser.values[i])]

\* Series.isna()
IsNaMask(ser) == [i \in 1..Len(ser.values) |-> IsNa(ser.values[i])]

\* Series != ''  (NaN != '' is True)
NeEmpty(ser) == [i \in 1..Len(ser.values) |-> ser.values[i] # <<>>]

\* Series == ''
EqEmpty(ser) == [i \in 1..Len(ser.values) |-> ser.values[i] = <<>>]

\* A slip: keep='last' semantics, a cell is a duplicate when an equal cell follows.
DuplicatedLast(ser) ==
    [i \in 1..Len(ser.values) |->
        \E j \in (i + 1)..Len(ser.values) : ser.values[j] = ser.values[i]]

\* Series.duplicated() with keep='first': a cell is a duplicate when an equal
\* cell precedes it; missing cells count as equal to each other.
Duplicated(ser) ==
    [i \in 1..Len(ser.values) |->
        \E j \in 1..(i - 1) : ser.values[j] = ser.values[i]]

\* mask.sum(): the number of True cells.
Sum(mask) == Cardinality({i \in 1..Len(mask) : mask[i]})

\* -------------------------------------------------------------- DataFrame

\* The positions of a mask that are True, ascending, as a sequence.
RECURSIVE Selected(_, _)
Selected(mask, i) ==
    IF i > Len(mask) THEN <<>>
    ELSE IF mask[i] THEN <<i>> \o Selected(mask, i + 1)
    ELSE Selected(mask, i + 1)

Take(seq, pos) == [k \in 1..Len(pos) |-> seq[pos[k]]]

\* A slip: the passthrough column is cut to length instead of selected by the mask.
BoolIndexMisaligned(frame, mask) ==
    LET pos == Selected(mask, 1)
    IN  [index |-> Take(frame.index, pos),
         name  |-> [values |-> Take(frame.name.values, pos),
                    dtype  |-> frame.name.dtype],
         email |-> [values |-> Take(frame.email.values, pos),
                    dtype  |-> frame.email.dtype],
         other |-> SubSeq(frame.other, 1, Len(pos))]

\* frame[mask]: a new frame of the rows whose mask is True, in order, every
\* column and the index labels carried along, dtypes kept.
BoolIndex(frame, mask) ==
    LET pos == Selected(mask, 1)
    IN  [index |-> Take(frame.index, pos),
         name  |-> [values |-> Take(frame.name.values, pos),
                    dtype  |-> frame.name.dtype],
         email |-> [values |-> Take(frame.email.values, pos),
                    dtype  |-> frame.email.dtype],
         other |-> Take(frame.other, pos)]

\* len(frame)
NRows(frame) == Len(frame.index)

\* Line 25: cleaned_df[cleaned_df['email'].notna()]
FilterNotNa(frame) == BoolIndex(frame, NotNa(frame.email))

\* Line 26: cleaned_df[cleaned_df['email'] != '']
FilterNonEmpty(frame) == BoolIndex(frame, NeEmpty(frame.email))

\* A slip: subset= forgotten, so rows are duplicates only when every column agrees.
DropDuplicatesAllColumns(frame) ==
    LET n == Len(frame.index)
        same(i, j) == /\ frame.name.values[i] = frame.name.values[j]
                      /\ frame.email.values[i] = frame.email.values[j]
                      /\ frame.other[i] = frame.other[j]
    IN  BoolIndex(frame, [i \in 1..n |-> ~(\E j \in 1..(i - 1) : same(i, j))])

\* Line 29: drop_duplicates(subset=['email'], keep='first')
DropDuplicates(frame) ==
    LET dup == Duplicated(frame.email)
    IN  BoolIndex(frame, [i \in 1..Len(dup) |-> ~dup[i]])

\* A slip: the old labels are kept as the index.
KeepIndex(frame) == frame

\* Line 32: reset_index(drop=True): the labels become 0..n-1.
ResetIndex(frame) ==
    [frame EXCEPT !.index = [i \in 1..Len(frame.index) |-> i - 1]]

\* A slip: the name is trimmed but not lowercased.
SetNameStripOnly(frame) == [frame EXCEPT !.name = StrStrip(frame.name)]

\* Line 19:  frame['name'] = frame['name'].str.strip().str.lower()
SetName(frame) == [frame EXCEPT !.name = StripLower(frame.name)]

\* A slip: the email is lowercased but not trimmed.
SetEmailLowerOnly(frame) == [frame EXCEPT !.email = StrLower(frame.email)]

\* Line 22:  frame['email'] = frame['email'].str.strip().str.lower()
SetEmail(frame) == [frame EXCEPT !.email = StripLower(frame.email)]

\* Lines 16-34 as one function of the frame passed in: whether a .str
\* accessor refused its column (AttributeError), and otherwise the frame returned.
clean_dataframe(frame) ==
    IF ~StrAccessorOk(frame.name) \/ ~StrAccessorOk(SetName(frame).email)
    THEN [raised |-> TRUE, frame |-> frame]
    ELSE [raised |-> FALSE,
          frame  |-> ResetIndex(DropDuplicates(FilterNonEmpty(FilterNotNa(
                         SetEmail(SetName(frame))))))]

\* ------------------------------------------------------------------ state

InputRef == 1
WorkRef  == 2
NoFrame  == [index |-> <<>>,
             name  |-> [values |-> <<>>, dtype |-> "none"],
             email |-> [values |-> <<>>, dtype |-> "none"],
             other |-> <<>>]
NoReport == [total_in |-> -1, total_out |-> -1, removed |-> -1,
             nulls |-> -1, empties |-> -1, duplicates |-> -1]

\* The cells the input columns are drawn from.
NameValues  == {NaN, <<" ", " ", "B">>, <<"c">>}
EmailValues == {NaN, <<>>, <<" ">>, <<"a">>, <<" ", "A", " ">>, <<"b">>,
                <<"a", " ", "B", " ">>}

AllNa(vals) == \A i \in 1..Len(vals) : IsNa(vals[i])

\* The dtype pandas gives a column: object when it holds text; a column with
\* no text cell is object (all None, or no rows) or float64 (NaN present,
\* e.g. an empty spreadsheet column).
Dtypes(vals) == IF AllNa(vals) THEN {"object", "float64"} ELSE {"object"}

\* A slip: the working frame is the caller's frame, not a copy.
AliasRef(ref) == ref

\* Line 16: df.copy() allocates a new frame.
CopyRef(ref) == WorkRef

Init ==
    /\ \E n \in 0..MaxRows :
       \E names \in [1..n -> NameValues], emails \in [1..n -> EmailValues] :
       \E nd \in Dtypes(names), ed \in Dtypes(emails) :
          heap = [r \in {InputRef, WorkRef} |->
                    IF r = InputRef
                    THEN [index |-> [i \in 1..n |-> i - 1],
                          name  |-> [values |-> names, dtype |-> nd],
                          email |-> [values |-> emails, dtype |-> ed],
                          other |-> [i \in 1..n |-> i]]
                    ELSE NoFrame]
    /\ df = InputRef
    /\ cleaned_df = 0
    /\ pc = "copy"
    /\ report = NoReport

\* Line 16
Copy ==
    /\ pc = "copy"
    /\ heap' = [heap EXCEPT ![CopyRef(df)] = heap[df]]
    /\ cleaned_df' = CopyRef(df)
    /\ pc' = "name"
    /\ UNCHANGED <<df, report>>

\* Line 19; the column assignment writes into the frame cleaned_df refers to.
TrimName ==
    /\ pc = "name"
    /\ IF StrAccessorOk(heap[cleaned_df].name)
       THEN /\ heap' = [heap EXCEPT ![cleaned_df] = SetName(@)]
            /\ pc' = "email"
       ELSE /\ pc' = "raised"
            /\ UNCHANGED heap
    /\ UNCHANGED <<df, cleaned_df, report>>

\* Line 22
TrimEmail ==
    /\ pc = "email"
    /\ IF StrAccessorOk(heap[cleaned_df].email)
       THEN /\ heap' = [heap EXCEPT ![cleaned_df] = SetEmail(@)]
            /\ pc' = "notna"
       ELSE /\ pc' = "raised"
            /\ UNCHANGED heap
    /\ UNCHANGED <<df, cleaned_df, report>>

\* Line 25; indexing builds a new frame and cleaned_df is rebound to it.
DropNa ==
    /\ pc = "notna"
    /\ heap' = [heap EXCEPT ![WorkRef] = FilterNotNa(heap[cleaned_df])]
    /\ cleaned_df' = WorkRef
    /\ pc' = "nonempty"
    /\ UNCHANGED <<df, report>>

\* Line 26
DropEmpty ==
    /\ pc = "nonempty"
    /\ heap' = [heap EXCEPT ![WorkRef] = FilterNonEmpty(heap[cleaned_df])]
    /\ cleaned_df' = WorkRef
    /\ pc' = "dedup"
    /\ UNCHANGED <<df, report>>

\* Line 29
Dedup ==
    /\ pc = "dedup"
    /\ heap' = [heap EXCEPT ![WorkRef] = DropDuplicates(heap[cleaned_df])]
    /\ cleaned_df' = WorkRef
    /\ pc' = "reset"
    /\ UNCHANGED <<df, report>>

\* Lines 32-34: the index is reset and the frame returned to the caller.
Reset ==
    /\ pc = "reset"
    /\ heap' = [heap EXCEPT ![WorkRef] = ResetIndex(heap[cleaned_df])]
    /\ cleaned_df' = WorkRef
    /\ pc' = "returned"
    /\ UNCHANGED <<df, report>>

\* Lines 65-78: the driver's summary of messy_df against cleaned_df.
Report ==
    /\ pc = "returned"
    /\ LET messy == heap[df]
           out   == heap[cleaned_df]
       IN  report' = [total_in   |-> NRows(messy),
                      total_out  |-> NRows(out),
                      removed    |-> NRows(messy) - NRows(out),
                      nulls      |-> Sum(IsNaMask(messy.email)),
                      empties    |-> Sum(EqEmpty(messy.email)),
                      duplicates |-> Sum(Duplicated(StripLower(messy.email)))]
    /\ pc' = "reported"
    /\ UNCHANGED <<heap, df, cleaned_df>>

Next ==
    \/ Copy
    \/ TrimName
    \/ TrimEmail
    \/ DropNa
    \/ DropEmpty
    \/ Dedup
    \/ Reset
    \/ Report

Spec == Init /\ [][Next]_vars

\* ================================================================ claims

\* The frame the caller passed in, and the frame clean_dataframe works on
\* (once it has returned: its result).
In  == heap[df]
Out == heap[cleaned_df]

Returned == pc \in {"returned", "reported"}

RowsOf(frame) == 1..Len(frame.index)

\* The canonical form as the specification words it, trim(lowercase(v)),
\* written without the operators that model the code.
Lowercased(s) ==
    [i \in 1..Len(s) |->
        IF s[i] = "A" THEN "a" ELSE IF s[i] = "B" THEN "b" ELSE s[i]]

Trimmed(s) ==
    LET keep == {i \in 1..Len(s) : s[i] # " "}
    IN  IF keep = {} THEN <<>>
        ELSE SubSeq(s, CHOOSE i \in keep : \A k \in keep : i <= k,
                       CHOOSE i \in keep : \A k \in keep : k <= i)

Canonical(v) == IF v = NaN THEN NaN ELSE Trimmed(Lowercased(v))

\* The canonical emails that qualify a record for the output.
Keys == {Canonical(In.email.values[i]) : i \in RowsOf(In)} \ {NaN, <<>>}

\* The earliest input row whose canonical email is k.
First(k) ==
    CHOOSE i \in RowsOf(In) :
        /\ Canonical(In.email.values[i]) = k
        /\ \A h \in 1..(i - 1) : Canonical(In.email.values[h]) # k

\* The strictly increasing maps from output rows to input rows.
Embeddings ==
    {f \in [RowsOf(Out) -> RowsOf(In)] :
        \A a, b \in RowsOf(Out) : a < b => f[a] < f[b]}

\* C1: every qualifying canonical email k of the input occurs in exactly one
\* output record, and that record carries the (canonical) name and the other
\* field of the earliest input record whose canonical email is k.
C1_FirstWins ==
    Returned =>
        \A k \in Keys :
            /\ Cardinality({j \in RowsOf(Out) : Out.email.values[j] = k}) = 1
            /\ \A j \in RowsOf(Out) :
                  Out.email.values[j] = k =>
                     /\ Out.name.values[j] = Canonical(In.name.values[First(k)])
                     /\ Out.other[j] = In.other[First(k)]

\* Reached: two input rows share a canonical email but not a canonical name,
\* and the output holds the earlier one's.
C1_Witness ==
    /\ Returned
    /\ \E a, b \in RowsOf(In) :
          /\ a < b
          /\ In.email.values[a] # In.email.values[b]
          /\ Canonical(In.email.values[a]) = Canonical(In.email.values[b])
          /\ Canonical(In.email.values[a]) \in Keys
          /\ First(Canonical(In.email.values[a])) = a
          /\ Canonical(In.name.values[a]) # Canonical(In.name.values[b])
          /\ \E j \in RowsOf(Out) : Out.other[j] = In.other[a]

\* C2: no two distinct output records have the same email, also when emails
\* are compared in canonical form.
C2_UniqueEmails ==
    Returned =>
        \A a, b \in RowsOf(Out) :
            a # b =>
               /\ Out.email.values[a] # Out.email.values[b]
               /\ Canonical(Out.email.values[a]) # Canonical(Out.email.values[b])

\* Reached: the input has two emails that differ only by case or surrounding
\* whitespace, and the output is not empty.
C2_Witness ==
    /\ Returned
    /\ Len(Out.index) >= 1
    /\ \E a, b \in RowsOf(In) :
          /\ In.email.values[a] # In.email.values[b]
          /\ Canonical(In.email.values[a]) = Canonical(In.email.values[b])
          /\ Canonical(In.email.values[a]) \in Keys

\* An email that disqualifies its record: null, empty, or whitespace only.
Blank(v) == v = NaN \/ \A i \in 1..Len(v) : v[i] = " "

\* C3: no output record has a null or empty email, and no input record whose
\* email is null, empty or whitespace-only is in the output.
C3_NoBlankEmail ==
    Returned =>
        /\ \A j \in RowsOf(Out) :
              Out.email.values[j] # NaN /\ Out.email.values[j] # <<>>
        /\ \A i \in RowsOf(In) :
              Blank(In.email.values[i]) =>
                 \A j \in RowsOf(Out) : Out.other[j] # In.other[i]

\* Reached: a whitespace-only email and a null email were removed, a record kept.
C3_Witness ==
    /\ Returned
    /\ Len(Out.index) >= 1
    /\ \E i \in RowsOf(In) : In.email.values[i] = <<" ">>
    /\ \E i \in RowsOf(In) : In.email.values[i] = NaN

\* C4: the output records are, in order, input records with email and name
\* replaced by their canonical forms, a null name staying null; and a null
\* name never removes the earliest record of a qualifying email.
C4_Canonicalized ==
    Returned =>
        /\ \E f \in Embeddings :
              \A j \in RowsOf(Out) :
                 /\ Out.email.values[j] = Canonical(In.email.values[f[j]])
                 /\ Out.name.values[j] = Canonical(In.name.values[f[j]])
        /\ \A k \in Keys :
              In.name.values[First(k)] = NaN =>
                 \E j \in RowsOf(Out) :
                    Out.email.values[j] = k /\ Out.name.values[j] = NaN

\* Reached: an output record whose name and email both had to be changed, and
\* one whose null name stayed null.
C4_Witness ==
    /\ Returned
    /\ \E j \in RowsOf(Out) : Out.name.values[j] = NaN
    /\ \E i \in RowsOf(In) :
          /\ In.name.values[i] # NaN
          /\ In.name.values[i] # Canonical(In.name.values[i])
          /\ In.email.values[i] # Canonical(In.email.values[i])
          /\ \E j \in RowsOf(Out) : Out.other[j] = In.other[i]

\* C5: the output keeps the input order (the input rows are numbered 1..n in
\* the other column) and its index is 0, 1, ..., n-1.
C5_OrderAndIndex ==
    Returned =>
        /\ \A a, b \in RowsOf(Out) : a < b => Out.other[a] < Out.other[b]
        /\ \A j \in RowsOf(Out) : \E i \in RowsOf(In) : Out.other[j] = In.other[i]
        /\ \A j \in RowsOf(Out) : Out.index[j] = j - 1

\* Reached: a row was removed ahead of a surviving row, and two rows survive.
C5_Witness ==
    /\ Returned
    /\ Len(Out.index) = 2
    /\ Out.other[1] > 1

\* C6: no step of clean_dataframe changes the frame the caller passed in, and
\* what it returns is the cleaned table.
C6_InputUnchanged ==
    /\ [][heap'[df] = heap[df] /\ df' = df]_vars
    /\ [](Returned =>
            \A j \in RowsOf(Out) :
               /\ Out.email.values[j] = Canonical(Out.email.values[j])
               /\ Out.name.values[j] = Canonical(Out.name.values[j]))

\* Reached: the call has returned a cleaned record while the input still holds
\* the raw name and email.
C6_Witness ==
    /\ Returned
    /\ In.name.values # <<>>
    /\ In.name.values[1] = <<" ", " ", "B">>
    /\ In.email.values[1] = <<" ", "A", " ">>
    /\ Out.name.values # <<>>
    /\ Out.name.values[1] = <<"b">>
    /\ Out.email.values[1] = <<"a">>

\* C7: clean_dataframe applied to its own result returns that result.
C7_Idempotent ==
    Returned =>
        /\ ~clean_dataframe(Out).raised
        /\ clean_dataframe(Out).frame = Out

\* Reached: a result with two records that differs from the input.
C7_Witness ==
    /\ Returned
    /\ Len(Out.index) = 2
    /\ Len(In.index) = 3
    /\ \E i \in RowsOf(In) : In.name.values[i] = <<" ", " ", "B">>

AllNa_Emails == \A i \in RowsOf(In) : In.email.values[i] = NaN
OneKey == RowsOf(In) # {} /\ \E k \in Keys :
              \A i \in RowsOf(In) : Canonical(In.email.values[i]) = k

\* C8: a table with no records, with every email null, or with one canonical
\* email throughout never makes clean_dataframe raise, and the result has
\* 0, 0 and 1 records.
C8_DegenerateInputs ==
    (RowsOf(In) = {} \/ AllNa_Emails \/ OneKey) =>
        /\ pc # "raised"
        /\ Returned => Len(Out.index) = IF OneKey THEN 1 ELSE 0

\* C9: every output record carries the other field of the input record whose
\* (canonical) email and name it carries.
C9_OtherFieldsKept ==
    Returned =>
        \A j \in RowsOf(Out) :
            \E i \in RowsOf(In) :
               /\ Out.other[j] = In.other[i]
               /\ Out.email.values[j] = Canonical(In.email.values[i])
               /\ Out.name.values[j] = Canonical(In.name.values[i])

\* Reached: a surviving record follows a removed one, so its position changed.
C9_Witness ==
    /\ Returned
    /\ \E j \in RowsOf(Out) : Out.other[j] > j
    /\ Len(Out.index) >= 2

\* C10: the rows the driver reports as removed are the sum of the null,
\* empty and duplicate counts it reports.
C10_RemovedIsSumOfCauses ==
    pc = "reported" =>
        report.removed = report.nulls + report.empties + report.duplicates

====
